---- MODULE Spec2Model ----
(***************************************************************************)
(* State-machine model of wot.model.OTModel (src/wot/model/ot_model.py):   *)
(* the transport-map cache, compute_transport_map, the sequential and the  *)
(* parallel dispatch of compute_all_transport_maps, transport_map,         *)
(* push_forward / pull_back, the solver configuration, and the population  *)
(* builders and census (population_from_ids, population_from_cell_sets,    *)
(* population_census).                                                     *)
(***************************************************************************)
EXTENDS Integers, Sequences, FiniteSets, TLC

(* ------------------------------ bounds -------------------------------- *)

\* max_threads is drawn from 1..MaxThreads
MaxThreads == 3
\* solver invocations explored over the compute_all calls of a behaviour
MaxSolves == 4
\* solver invocations explored over the direct compute_transport_map calls
MaxComputes == 2
\* a DayPairRegistry holds at most this many pairs
MaxRegistry == 2
\* population_from_ids / population_from_cell_sets get at most this many groups
MaxGroups == 2

(* ------------------------- encodings of None -------------------------- *)

\* covariate=None / to_time=None
None == <<>>
NoTime == -1

(* --------------------------- small helpers ---------------------------- *)

EmptyMap == [k \in {} |-> 0]

Put(f, k, v) == [x \in (DOMAIN f) \cup {k} |-> IF x = k THEN v ELSE f[x]]

Merge(lo, hi) ==
  [x \in (DOMAIN lo) \cup (DOMAIN hi) |-> IF x \in DOMAIN hi THEN hi[x] ELSE lo[x]]

Range(s) == {s[i] : i \in DOMAIN s}

IndexOf(s, x) == CHOOSE i \in DOMAIN s : s[i] = x

\* lexicographic order on pairs of days, used to list a set of pairs
PairLess(a, b) == a[1] < b[1] \/ (a[1] = b[1] /\ a[2] < b[2])

RECURSIVE SortPairs(_)
SortPairs(S) ==
  IF S = {} THEN <<>>
  ELSE LET lo == CHOOSE a \in S : \A b \in S \ {a} : PairLess(a, b)
       IN  <<lo>> \o SortPairs(S \ {lo})

RECURSIVE Flatten(_)
Flatten(ss) == IF ss = <<>> THEN <<>> ELSE Head(ss) \o Flatten(Tail(ss))

\* the elements of a set of integers, in increasing order
RECURSIVE SortInts(_)
SortInts(S) ==
  IF S = {} THEN <<>>
  ELSE LET lo == CHOOSE a \in S : \A b \in S : a <= b
       IN  <<lo>> \o SortInts(S \ {lo})

RECURSIVE Sum(_)
Sum(s) == IF s = <<>> THEN 0 ELSE Head(s) + Sum(Tail(s))

RECURSIVE GCD(_, _)
GCD(a, b) == IF b = 0 THEN a ELSE GCD(b, a % b)

RECURSIVE GCDAll(_)
GCDAll(s) == IF s = <<>> THEN 0 ELSE GCD(Head(s), GCDAll(Tail(s)))

(* ---------------------------- weight vectors -------------------------- *)

\* A float vector is the vector of fractions num[k] / den with non-negative
\* integers in lowest terms; den = 0 stands for the vector of nan that a
\* division by a zero sum produces.
Vec(num, den) ==
  LET g == GCD(den, GCDAll(num))
  IN  IF den = 0 \/ g = 0 THEN [num |-> [k \in DOMAIN num |-> 0], den |-> 0]
      ELSE [num |-> [k \in DOMAIN num |-> num[k] \div g], den |-> den \div g]

\* p / np.sum(p)
DivideBySum(v) == Vec(v.num, Sum(v.num))

\* np.isclose(np.sum(p), 0)
SumIsCloseToZero(v) == v.den # 0 /\ Sum(v.num) = 0

\* np.dot(p, x) for a row vector p and a matrix x (sequence of rows)
VecMat(v, x) ==
  Vec([b \in DOMAIN x[1] |-> Sum([a \in DOMAIN x |-> v.num[a] * x[a][b]])], v.den)

\* np.dot(x, p.T).T for a row vector p and a matrix x (sequence of rows)
MatVec(x, v) ==
  Vec([a \in DOMAIN x |-> Sum([b \in DOMAIN x[a] |-> x[a][b] * v.num[b]])], v.den)

\* np.dot(x, y) for two matrices
MatMat(x, y) ==
  [a \in DOMAIN x |-> [c \in DOMAIN y[1] |->
     Sum([b \in DOMAIN y |-> x[a][b] * y[b][c]])]]

(* ------------------------------ dataset ------------------------------- *)

\* self.timepoints = sorted(set(matrix.row_meta['day']))
timepoints == <<0, 1, 2>>

Days == Range(timepoints)

\* a day that is not in the dataset, for the unknown-timepoint cases
UnknownDay == timepoints[Len(timepoints)] + 1

Times == Days \cup {UnknownDay}

\* the values of the dataset's covariate column
Covariates == {1, 2}

\* matrix.row_meta['day']: the day of every cell (row) of the dataset; the
\* list timepoints is sorted(set(row_day))
row_day == <<0, 1, 2, 1, 2>>

\* matrix.row_meta.index: the id of every cell (row) of the dataset
row_ids == <<"a0", "b1", "c2", "d1", "e2">>

\* an id that is not in the dataset
UnknownId == "zz"

\* index.get_indexer_for(ids): the position of every id in the index, -1 for
\* an id that is not in it
get_indexer_for(idx, ids) ==
  [k \in DOMAIN ids |-> IF ids[k] \in Range(idx) THEN IndexOf(idx, ids[k]) ELSE -1]

\* np.where(self.matrix.row_meta['day'] == day)[0]: the rows of a day, in order
all_inds(day) == SortInts({r \in DOMAIN row_day : row_day[r] = day})

\* wot.Population(time, p)
Population(time, p) == [time |-> time, p |-> p]

ForwardPairs == {p \in Days \X Days : p[1] < p[2]}

default_tmap_prefix == "tmaps"

\* self.tmap_prefix = tmap_prefix or self.default_tmap_prefix
tmap_prefix == default_tmap_prefix

(* ------------------------------- state -------------------------------- *)

VARIABLES
  day_pairs,     \* self.day_pairs: [active |-> FALSE] is None, else the registry dict
  max_threads,   \* self.max_threads
  ot_config,     \* self.ot_config: the user-supplied keyword configuration
  tmaps,         \* self.tmaps: (t0,t1) -> path
  cov_tmaps,     \* self.cov_tmaps: (t0,t1,c0,c1) -> path
  dir,           \* the transport map directory: path -> stored matrix
  solverCalls,   \* number of solver invocations so far
  calls,         \* configurations handed to the solver by the current operation (bag)
  pc,            \* "idle", "seq" (sequential loop), "par" (dispatch loop)
  batch,         \* arguments and candidate list of the current compute_all call
  procs,         \* the Process objects of the parallel dispatch
  i,             \* loop variable of the running compute_all loop
  last           \* the last finished call: its arguments and its outcome

vars == <<day_pairs, max_threads, ot_config, tmaps, cov_tmaps, dir, solverCalls,
          calls, pc, batch, procs, i, last>>

config_vars == <<day_pairs, max_threads, ot_config>>

(* --------------------------- configuration ---------------------------- *)

\* ot_defaults of get_ot_config; values in hundredths (epsilon .05 -> 5)
ot_defaults ==
  [x \in {"epsilon", "lambda1", "lambda2", "epsilon0", "tau", "growth_iters",
          "batch_size", "local_pca", "max_iter", "tolerance"} |->
     CASE x = "epsilon" -> 5
       [] x = "lambda1" -> 100
       [] x = "lambda2" -> 5000
       [] x = "epsilon0" -> 100
       [] x = "tau" -> 1000000
       [] x = "growth_iters" -> 300
       [] x = "batch_size" -> 5000
       [] x = "local_pca" -> 3000
       [] x = "max_iter" -> 1000000000
       [] x = "tolerance" -> 1]

\* { x: config[x] if x in config else ot_defaults[x] for x in ot_defaults }
get_ot_config ==
  [x \in DOMAIN ot_defaults |->
     IF x \in DOMAIN ot_config THEN ot_config[x] ELSE ot_defaults[x]]

\* the keyword configurations a model is constructed with
UserConfigs == {EmptyMap}

\* the per-pair overrides a registry entry is constructed with
LocalConfigs == {EmptyMap}

\* the registries a model is constructed with: day_pairs=None, or a dict of
\* one to MaxRegistry pairs of days
RegistryChoices ==
  {[active |-> FALSE, map |-> EmptyMap]} \cup
  {[active |-> TRUE, map |-> f] :
     f \in UNION {[S -> LocalConfigs] :
                    S \in {R \in SUBSET ForwardPairs :
                            R # {} /\ Cardinality(R) <= MaxRegistry}}}

\* the registries whose pairs carry the overrides of a set of overrides
RegistriesOver(locals) ==
  {[active |-> FALSE, map |-> EmptyMap]} \cup
  {[active |-> TRUE, map |-> f] :
     f \in UNION {[S -> locals] :
                    S \in {R \in SUBSET ForwardPairs :
                            R # {} /\ Cardinality(R) <= MaxRegistry}}}

\* keyword configurations with a key of the defaults table and with a key that
\* is not in it ("ncells")
ConfiguredUserConfigs ==
  {EmptyMap,
   Put(Put(EmptyMap, "epsilon", 7), "lambda1", 200),
   Put(Put(EmptyMap, "epsilon", 7), "ncells", 9)}

\* per-pair overrides: none, one that sets keys the other levels set too
\* ("epsilon", "t0"), and one with a key outside the defaults table ("ncounts")
ConfiguredLocalConfigs ==
  {EmptyMap,
   Put(Put(EmptyMap, "epsilon", 10), "t0", UnknownDay),
   Put(EmptyMap, "ncounts", 4)}

ConfiguredRegistries == RegistriesOver(ConfiguredLocalConfigs)

\* sorted(set(covariate)) x sorted(set(covariate)), in product order
get_covariate_pairs ==
  LET cs == SortPairs({<<c, c>> : c \in Covariates})
  IN  Flatten([a \in DOMAIN cs |-> [b \in DOMAIN cs |-> <<cs[a][1], cs[b][1]>>]])

(* --------------------------- external parts --------------------------- *)

\* the matrix the solver returns, identified by the days and the covariate
\* restriction of the configuration it solved
compute_single_transport_map(config) ==
  [t0 |-> config["t0"], t1 |-> config["t1"], covariate |-> config["covariate"]]

\* "{prefix}_{t0}_{t1}.loom" and "{prefix}_{t0}_{t1}_cv{c0}_cv{c1}.loom"
PlainName(t0, t1) == "_" \o ToString(t0) \o "_" \o ToString(t1) \o ".loom"

\* faulty variant: the name leaves out the second covariate
CovNameFirstOnly(t0, t1, covariate) ==
  "_" \o ToString(t0) \o "_" \o ToString(t1) \o "_cv" \o ToString(covariate[1]) \o ".loom"

CovName(t0, t1, covariate) ==
  "_" \o ToString(t0) \o "_" \o ToString(t1) \o "_cv" \o ToString(covariate[1])
      \o "_cv" \o ToString(covariate[2]) \o ".loom"

\* scan_transport_map_directory: the keys whose file name is in the directory
scan_transport_map_directory(D) ==
  LET plain == {p \in Times \X Times : (tmap_prefix \o PlainName(p[1], p[2])) \in DOMAIN D}
      cov == {q \in Times \X Times \X Covariates \X Covariates :
                (tmap_prefix \o CovName(q[1], q[2], <<q[3], q[4]>>)) \in DOMAIN D}
  IN  << [p \in plain |-> tmap_prefix \o PlainName(p[1], p[2])],
         [q \in cov |-> tmap_prefix \o CovName(q[1], q[2], <<q[3], q[4]>>)] >>

(* ----------------------- compute_transport_map ------------------------ *)

\* the outcomes of the solver call and of write_dataset
Outcomes == {"ok", "solver_failed", "write_failed"}

\* faulty variant: the path is stored under the reversed pair
TmapKeySwapped(t0, t1) == <<t1, t0>>

\* the key under which the computed path is stored in self.tmaps
TmapKey(t0, t1) == <<t0, t1>>

\* faulty variant: the covariates of the key are stored in reverse order
CovTmapKeyReversed(t0, t1, covariate) == <<t0, t1, covariate[2], covariate[1]>>

\* the key under which the computed path is stored in self.cov_tmaps
CovTmapKey(t0, t1, covariate) == <<t0, t1, covariate[1], covariate[2]>>

\* faulty variant: the global configuration is merged over the override
EffectiveConfigGlobalWins(local_config, t0, t1, covariate) ==
  Merge(Merge(local_config, get_ot_config),
        [x \in {"t0", "t1", "covariate"} |->
           CASE x = "t0" -> t0 [] x = "t1" -> t1 [] x = "covariate" -> covariate])

\* config = { **get_ot_config(), **local_config, 't0':.., 't1':.., 'covariate':.. }
EffectiveConfig(local_config, t0, t1, covariate) ==
  Merge(Merge(get_ot_config, local_config),
        [x \in {"t0", "t1", "covariate"} |->
           CASE x = "t0" -> t0 [] x = "t1" -> t1 [] x = "covariate" -> covariate])

\* faulty variant: the registry test is "if self.day_pairs is None"
PairRejectedWhenNone(t0, t1) == ~day_pairs.active

\* if self.day_pairs is not None: if (t0, t1) not in self.day_pairs: raise
PairRejected(t0, t1) == day_pairs.active /\ <<t0, t1>> \notin DOMAIN day_pairs.map

\* One call of compute_transport_map on the cache T, CT and the directory D.
\* Result: the error raised ("ok" for a normal return), the cache and the
\* directory afterwards, and the configurations handed to the solver.
compute_transport_map(T, CT, D, t0, t1, covariate, outcome) ==
  IF PairRejected(t0, t1)
  THEN [err |-> "IllegalPair", tmaps |-> T, cov_tmaps |-> CT, dir |-> D, solved |-> <<>>]
  ELSE IF day_pairs.active /\ <<t0, t1>> \notin DOMAIN day_pairs.map
  THEN \* self.day_pairs[(t0, t1)] on a missing key
       [err |-> "KeyError", tmaps |-> T, cov_tmaps |-> CT, dir |-> D, solved |-> <<>>]
  ELSE
    LET local_config == IF day_pairs.active THEN day_pairs.map[<<t0, t1>>] ELSE EmptyMap
        config == EffectiveConfig(local_config, t0, t1, covariate)
        tmap == compute_single_transport_map(config)
        path == IF covariate = None
                THEN tmap_prefix \o PlainName(t0, t1)
                ELSE tmap_prefix \o CovName(t0, t1, covariate)
        T2 == IF covariate = None THEN Put(T, TmapKey(t0, t1), path) ELSE T
        CT2 == IF covariate = None THEN CT ELSE Put(CT, CovTmapKey(t0, t1, covariate), path)
    IN  CASE outcome = "solver_failed" ->
               [err |-> "SolverError", tmaps |-> T, cov_tmaps |-> CT, dir |-> D,
                solved |-> <<config>>]
          [] outcome = "write_failed" ->
               [err |-> "WriteError", tmaps |-> T2, cov_tmaps |-> CT2, dir |-> D,
                solved |-> <<config>>]
          [] OTHER ->
               [err |-> "ok", tmaps |-> T2, cov_tmaps |-> CT2,
                dir |-> Put(D, path, tmap), solved |-> <<config>>]

(* ------------------------ bookkeeping of calls ------------------------ *)

BagAdd(b, c) == IF c \in DOMAIN b THEN [b EXCEPT ![c] = @ + 1] ELSE Put(b, c, 1)

RECURSIVE BagAddAll(_, _)
BagAddAll(b, cs) == IF cs = <<>> THEN b ELSE BagAddAll(BagAdd(b, Head(cs)), Tail(cs))

\* origin: when the populations of the call are the result of the call
\* before, the populations that call was made with
NoArgs ==
  [t0 |-> NoTime, t1 |-> NoTime, covariate |-> None, to_time |-> NoTime,
   src |-> NoTime, force |-> FALSE, with_covariates |-> FALSE,
   populations |-> <<>>, origin |-> <<>>,
   ids |-> <<>>, at_time |-> NoTime, cell_sets |-> <<>>,
   cell_set_matrix |-> [ids |-> <<>>, x |-> <<>>, ncols |-> 0]]

\* pairs: the candidate list; tmaps0, cov_tmaps0: the cache when the call was
\* made; failed: a candidate's computation raised; rescanned: the directory
\* was scanned again
NoBatch ==
  [pairs |-> <<>>, tmaps0 |-> EmptyMap, cov_tmaps0 |-> EmptyMap, failed |-> FALSE,
   rescanned |-> FALSE]

\* the record of a call: err is "running" until the call returns ("ok") or raises
Call(op, args, err, ret, loads) ==
  [op |-> op, args |-> args, err |-> err, ret |-> ret, loads |-> loads,
   solver0 |-> solverCalls]

(* --------------------- compute_all_transport_maps --------------------- *)

\* the covariate argument of a candidate x: compute_transport_map(*x)
CovOf(x) == IF Len(x) = 3 THEN x[3] ELSE None

\* day_pairs = self.day_pairs, or the consecutive pairs of self.timepoints
BasePairs ==
  IF day_pairs.active
  THEN SortPairs(DOMAIN day_pairs.map)
  ELSE [k \in 1..(Len(timepoints) - 1) |-> <<timepoints[k], timepoints[k + 1]>>]

\* [(*d, c) for d, c in itertools.product(day_pairs, self.get_covariate_pairs())]
WithCovariates(pairs) ==
  Flatten([a \in DOMAIN pairs |->
             [b \in DOMAIN get_covariate_pairs |->
                <<pairs[a][1], pairs[a][2], get_covariate_pairs[b]>>]])

\* faulty variant: the filter looks covariate candidates up in self.tmaps
NotCachedPlain(T, CT, x) == <<x[1], x[2]>> \notin DOMAIN T

\* the test of the "if not force" filter: the candidate has no cache entry
NotCached(T, CT, x) ==
  IF Len(x) = 3
  THEN <<x[1], x[2], x[3][1], x[3][2]>> \notin DOMAIN CT
  ELSE x \notin DOMAIN T

\* the list day_pairs that compute_all_transport_maps dispatches
Candidates(force, with_covariates, T, CT) ==
  LET all == IF with_covariates THEN WithCovariates(BasePairs) ELSE BasePairs
      Keep(x) == NotCached(T, CT, x)
  IN  IF force THEN all ELSE SelectSeq(all, Keep)

\* faulty variant: the loop ends without joining the last m processes
dispatch_iterations_short(n, m) == n

\* for i in range(len(procs) + m)
dispatch_iterations(n, m) == n + m

\* faulty variant: the window is one process too wide
joined_proc_late(it, m) == IF it > m THEN it - m - 1 ELSE -1

\* faulty variant: the loop never waits for a process
joined_proc_never(it, m) == -1

\* if i >= m: procs[i - m].join()    (-1: this iteration joins nothing)
joined_proc(it, m) == IF it >= m THEN it - m ELSE -1

\* faulty variant: once every process is started, the last one is started again
started_proc_again(it, n) == IF it < n THEN it ELSE n - 1

\* if i < len(procs): procs[i].start()    (-1: this iteration starts nothing)
started_proc(it, n) == IF it < n THEN it ELSE -1

\* what procs[j].join() raises: IndexError for an index outside the list,
\* AssertionError ("can only join a started process") before start()
join_error(ps, j) ==
  IF j = -1 THEN "ok"
  ELSE IF j + 1 \notin DOMAIN ps THEN "IndexError"
  ELSE IF ps[j + 1].starts = 0 THEN "AssertionError"
  ELSE "ok"

\* what procs[s].start() raises: IndexError for an index outside the list,
\* AssertionError ("cannot start a process twice") after start()
start_error(ps, s) ==
  IF s = -1 THEN "ok"
  ELSE IF s + 1 \notin DOMAIN ps THEN "IndexError"
  ELSE IF ps[s + 1].starts > 0 THEN "AssertionError"
  ELSE "ok"

\* faulty variant: the workers are threads that share the parent's cache
parent_cache_shared(parent, child) == child

\* Process(...): the child works on its own copy of the parent's memory, so
\* the parent's cache after a worker has run is the parent's cache before
parent_cache_after_worker(parent, child) == parent

\* what compute_all does with the exit codes of its workers: nothing
dispatch_result(exitcodes) == "ok"

(* ---------------------------- transport_map --------------------------- *)

Result(err, ret, loads) == [err |-> err, ret |-> ret, loads |-> loads]

\* load_transport_map / load_covariate_restricted_transport_map: read the file
\* of the cached key; the key must have been computed before
load_transport_map(T, CT, D, t0, t1, covariate) ==
  LET cached == IF covariate = None
                THEN <<t0, t1>> \in DOMAIN T
                ELSE <<t0, t1, covariate[1], covariate[2]>> \in DOMAIN CT
      path == IF covariate = None THEN T[<<t0, t1>>]
              ELSE CT[<<t0, t1, covariate[1], covariate[2]>>]
  IN  IF ~cached THEN Result("MapNotComputed", <<>>, << <<t0, t1, covariate>> >>)
      ELSE IF path \notin DOMAIN D
      THEN Result("ReadError", <<>>, << <<t0, t1, covariate>> >>)
      ELSE Result("ok", <<D[path]>>, << <<t0, t1, covariate>> >>)

\* the atomic hops find_path walks: the registry's pairs, else the consecutive days
Hops ==
  IF day_pairs.active THEN DOMAIN day_pairs.map
  ELSE {<<timepoints[k], timepoints[k + 1]>> : k \in 1..(Len(timepoints) - 1)}

\* the days of a set, in increasing order
RECURSIVE SortDays(_)
SortDays(S) ==
  IF S = {} THEN <<>>
  ELSE LET lo == CHOOSE a \in S : \A b \in S : a <= b
       IN  <<lo>> \o SortDays(S \ {lo})

\* find_path: the monotone sequences of atomic hops from t0 to t1
find_path(t0, t1) ==
  IF t0 >= t1 THEN {}
  ELSE {p \in {SortDays({t0, t1} \cup S) : S \in SUBSET {d \in Days : t0 < d /\ d < t1}} :
          \A k \in 1..(Len(p) - 1) : <<p[k], p[k + 1]>> \in Hops}

\* chain_transport_maps: load every hop of the path and multiply them in order
RECURSIVE chain_transport_maps(_, _, _, _, _)
chain_transport_maps(T, CT, D, path, acc) ==
  IF Len(path) < 2 THEN acc
  ELSE LET r == load_transport_map(T, CT, D, path[1], path[2], None)
       IN  IF r.err # "ok" THEN Result(r.err, <<>>, acc.loads \o r.loads)
           ELSE chain_transport_maps(T, CT, D, Tail(path),
                                     Result("ok", acc.ret \o r.ret, acc.loads \o r.loads))

\* faulty variant: every later day counts as the successor
atomic_any_later(t0, t1) ==
  \/ day_pairs.active /\ <<t0, t1>> \in DOMAIN day_pairs.map
  \/ IndexOf(timepoints, t1) >= IndexOf(timepoints, t0) + 1

\* atomic = (day_pairs is not None and (t0,t1) in day_pairs)
\*          or timepoints.index(t1) == timepoints.index(t0) + 1
atomic(t0, t1) ==
  \/ day_pairs.active /\ <<t0, t1>> \in DOMAIN day_pairs.map
  \/ IndexOf(timepoints, t1) = IndexOf(timepoints, t0) + 1

\* The possible results of transport_map(t0, t1, covariate): the error raised,
\* the matrix returned (the sequence of the matrices multiplied) and the keys
\* it tried to load.
transport_map(T, CT, D, t0, t1, covariate) ==
  IF t0 \notin Days \/ t1 \notin Days
  THEN {Result("UnknownTimepoint", <<>>, <<>>)}
  ELSE IF ~atomic(t0, t1) /\ covariate # None
  THEN {Result("IllegalCovariateRequest", <<>>, <<>>)}
  ELSE IF atomic(t0, t1)
  THEN {load_transport_map(T, CT, D, t0, t1, covariate)}
  ELSE IF find_path(t0, t1) = {}
  THEN {Result("NoPathFound", <<>>, <<>>)}
  ELSE {chain_transport_maps(T, CT, D, path, Result("ok", <<>>, <<>>)) :
          path \in find_path(t0, t1)}

(* ---------------------- push_forward / pull_back ---------------------- *)

\* self.timepoints.index(t), 0-based; raises ValueError when t is not in the list
index(t) == IndexOf(timepoints, t) - 1

\* the matrix tmap.x of a stored transport map: one row per cell of t0 and one
\* column per cell of t1, with positive entries
tmap_x(tmap) ==
  [a \in DOMAIN all_inds(tmap.t0) |-> [b \in DOMAIN all_inds(tmap.t1) |-> a + b]]

\* the matrix of what transport_map returns: the product of the maps of its hops
RECURSIVE matrix_of(_)
matrix_of(ret) ==
  IF Len(ret) = 1 THEN tmap_x(ret[1])
  ELSE MatMat(tmap_x(ret[1]), matrix_of(Tail(ret)))

\* wot.model.unique_timepoint(*populations): the day all the populations live
\* at; NoTime when it raises (no population, or populations of several days)
unique_timepoint(populations) ==
  IF populations # <<>> /\ \A k \in DOMAIN populations : populations[k].time = populations[1].time
  THEN populations[1].time
  ELSE NoTime

\* p: the rows of the matrix p when the call stopped
Moved(err, time, loads, p) == [err |-> err, time |-> time, loads |-> loads, p |-> p]

\* if normalize: p = (p.T / np.sum(p, axis=1)).T
normalized(p, normalize) ==
  IF normalize THEN [k \in DOMAIN p |-> DivideBySum(p[k])] ELSE p

\* faulty variant: the loop goes one timepoint too far
push_continues_late(it, j) == it <= j /\ it + 1 < Len(timepoints)

\* while i < j
push_continues(it, j) == it < j

\* faulty variant: the map is requested as (later, earlier)
pull_request_reversed(it) == <<timepoints[it + 1], timepoints[it]>>

\* t1 = self.timepoints[i]; t0 = self.timepoints[i-1]; the pair pull_back requests
pull_request(it) == <<timepoints[it], timepoints[it + 1]>>

\* while i < j: tmap = self.transport_map(timepoints[i], timepoints[i+1]);
\*              p = np.dot(p, tmap.x); i += 1
RECURSIVE push_loop(_, _, _, _, _, _, _, _)
push_loop(T, CT, D, it, j, loads, p, normalize) ==
  IF ~push_continues(it, j) THEN Moved("ok", timepoints[it + 1], loads, p)
  ELSE LET r == CHOOSE x \in transport_map(T, CT, D, timepoints[it + 1],
                                           timepoints[it + 2], None) : TRUE
       IN  IF r.err # "ok" THEN Moved(r.err, NoTime, loads \o r.loads, p)
           ELSE push_loop(T, CT, D, it + 1, j, loads \o r.loads,
                          normalized([k \in DOMAIN p |-> VecMat(p[k], matrix_of(r.ret))],
                                     normalize),
                          normalize)

\* while i > j: tmap = self.transport_map(timepoints[i-1], timepoints[i]);
\*              p = np.dot(tmap.x, p.T).T; i -= 1
RECURSIVE pull_loop(_, _, _, _, _, _, _, _)
pull_loop(T, CT, D, it, j, loads, p, normalize) ==
  IF ~(it > j) THEN Moved("ok", timepoints[it + 1], loads, p)
  ELSE LET q == pull_request(it)
           r == CHOOSE x \in transport_map(T, CT, D, q[1], q[2], None) : TRUE
       IN  IF r.err # "ok" THEN Moved(r.err, NoTime, loads \o r.loads, p)
           ELSE pull_loop(T, CT, D, it - 1, j, loads \o r.loads,
                          normalized([k \in DOMAIN p |-> MatVec(matrix_of(r.ret), p[k])],
                                     normalize),
                          normalize)

\* p = np.vstack([ pop.p for pop in populations ])
vstack(populations) == [k \in DOMAIN populations |-> populations[k].p]

\* push_forward(*populations, to_time, normalize)
push_forward(T, CT, D, populations, to_time, normalize) ==
  LET src == unique_timepoint(populations)
  IN  IF src = NoTime THEN Moved("MixedTimepoints", NoTime, <<>>, <<>>)
      ELSE IF src \notin Days \/ (to_time # NoTime /\ to_time \notin Days)
      THEN Moved("UnknownTimepoint", NoTime, <<>>, <<>>)
      ELSE LET it == index(src)
               j == IF to_time = NoTime THEN it + 1 ELSE index(to_time)
           IN  IF j >= Len(timepoints) THEN Moved("NoFurtherTimepoint", NoTime, <<>>, <<>>)
               ELSE IF it > j THEN Moved("InvalidDirection", NoTime, <<>>, <<>>)
               ELSE push_loop(T, CT, D, it, j, <<>>, vstack(populations), normalize)

\* pull_back(*populations, to_time, normalize)
pull_back(T, CT, D, populations, to_time, normalize) ==
  LET src == unique_timepoint(populations)
  IN  IF src = NoTime THEN Moved("MixedTimepoints", NoTime, <<>>, <<>>)
      ELSE IF src \notin Days \/ (to_time # NoTime /\ to_time \notin Days)
      THEN Moved("UnknownTimepoint", NoTime, <<>>, <<>>)
      ELSE LET it == index(src)
               j == IF to_time = NoTime THEN it - 1 ELSE index(to_time)
           IN  IF it = 0 THEN Moved("NoPreviousTimepoint", NoTime, <<>>, <<>>)
               ELSE IF it < j THEN Moved("InvalidDirection", NoTime, <<>>, <<>>)
               ELSE pull_loop(T, CT, D, it, j, <<>>, vstack(populations), normalize)

\* result = [ Population(self.timepoints[i], p[k,:]) for k in range(p.shape[0]) ];
\* a single result is returned bare unless as_list (single is TRUE then)
returned(r, as_list) ==
  LET result == IF r.err = "ok" THEN [k \in DOMAIN r.p |-> Population(r.time, r.p[k])]
                ELSE <<>>
  IN  [single |-> Len(result) = 1 /\ ~as_list, pops |-> result]

(* ------------------ population_from_ids / cell sets ------------------- *)

\* the value None in a list of populations
NoPopulation == [time |-> NoTime, p |-> [num |-> <<>>, den |-> 1]]

\* faulty variant: the membership test uses the positions of the ids of all groups
group_cell_inds_all(ids, ids_el) == get_indexer_for(row_ids, Flatten(ids))

\* cell_inds = self.matrix.row_meta.index.get_indexer_for(ids_el)
group_cell_inds(ids, ids_el) == get_indexer_for(row_ids, ids_el)

\* get_population(ids_el): uniform over the cells of the day that are in ids_el,
\* None when there is none
get_population(ids, ids_el, day) ==
  LET cell_inds == group_cell_inds(ids, ids_el)
      inds == all_inds(day)
      p == Vec([k \in DOMAIN inds |-> IF inds[k] \in Range(cell_inds) THEN 1 ELSE 0], 1)
  IN  IF SumIsCloseToZero(p) THEN NoPopulation
      ELSE Population(day, DivideBySum(p))

\* self.matrix.row_meta.iloc[r]['day']; position -1 is the last row
iloc_day(r) == IF r = -1 THEN row_day[Len(row_day)] ELSE row_day[r]

\* population_from_ids(*ids, at_time): the error raised ("ok" for a normal
\* return), the list result, and single when result[0] is returned instead of
\* the list
population_from_ids(ids, at_time) ==
  LET cell_inds == get_indexer_for(row_ids, Flatten(ids))
      first_found == ids # <<>> /\ ids[1] # <<>> /\ ids[1][1] \in Range(row_ids)
      first_day == row_day[IndexOf(row_ids, ids[1][1])]
  IN  IF at_time = NoTime /\ ~first_found
      THEN [err |-> "LookupError", single |-> FALSE, result |-> <<>>]
      ELSE IF at_time = NoTime /\ \E k \in DOMAIN cell_inds : iloc_day(cell_inds[k]) # first_day
      THEN [err |-> "MixedTimepoints", single |-> FALSE, result |-> <<>>]
      ELSE LET day == IF at_time = NoTime THEN first_day ELSE at_time
               result == [k \in DOMAIN ids |-> get_population(ids, ids[k], day)]
           IN  [err |-> "ok", single |-> Len(result) = 1, result |-> result]

\* population_from_cell_sets(cell_sets, at_time); cell_sets is the list of the
\* (name, ids) items of the dictionary. populations[i] on a value that is not a
\* list raises TypeError.
population_from_cell_sets(cell_sets, at_time) ==
  LET keys == [k \in DOMAIN cell_sets |-> cell_sets[k][1]]
      populations == population_from_ids([k \in DOMAIN cell_sets |-> cell_sets[k][2]], at_time)
      kept == {k \in DOMAIN keys : populations.result[k] # NoPopulation}
  IN  IF populations.err # "ok" THEN [err |-> populations.err, ret |-> EmptyMap]
      ELSE IF populations.single THEN [err |-> "TypeError", ret |-> EmptyMap]
      ELSE [err |-> "ok",
            ret |-> [name \in {keys[k] : k \in kept} |->
                       populations.result[CHOOSE k \in kept : keys[k] = name]]]

(* -------------------------- population_census ------------------------- *)

\* self.matrix.row_meta.index[self.matrix.row_meta['day'] == day]
all_ids_at_t(day) == [k \in DOMAIN all_inds(day) |-> row_ids[all_inds(day)[k]]]

\* cell_set_matrix.row_meta.index.intersection(all_ids_at_t)
intersection(idx, other) ==
  LET Common(id) == id \in Range(other)
  IN  SelectSeq(idx, Common)

\* faulty variant: one zero per row of the cell set matrix
zero_census_rows(cell_set_matrix) == Vec([k \in DOMAIN cell_set_matrix.x |-> 0], 1)

\* [0] * cell_set_matrix.x.shape[1]
zero_census(cell_set_matrix) == Vec([k \in 1..cell_set_matrix.ncols |-> 0], 1)

\* norm = lambda p : p if np.isclose(np.sum(p), 0) else p / np.sum(p)
norm(p) == IF SumIsCloseToZero(p) THEN p ELSE DivideBySum(p)

\* get_census(p) = np.dot(p[pop_indexer], cell_set_matrix.x[csm_indexer,:])
get_census(p, pop_indexer, csm_indexer, cell_set_matrix) ==
  Vec([c \in 1..cell_set_matrix.ncols |->
         Sum([k \in DOMAIN pop_indexer |->
                p.num[pop_indexer[k]] * cell_set_matrix.x[csm_indexer[k]][c]])],
      p.den)

\* population_census(cell_set_matrix, *populations): the error raised, the
\* list census, and single when census[0] is returned instead of the list
population_census(cell_set_matrix, populations) ==
  LET day == unique_timepoint(populations)
      inter_ids == intersection(cell_set_matrix.ids, all_ids_at_t(day))
      pop_indexer == get_indexer_for(all_ids_at_t(day), inter_ids)
      csm_indexer == get_indexer_for(cell_set_matrix.ids, inter_ids)
      census == IF Len(inter_ids) = 0
                THEN [k \in DOMAIN populations |-> zero_census(cell_set_matrix)]
                ELSE [k \in DOMAIN populations |->
                        get_census(norm(populations[k].p), pop_indexer, csm_indexer,
                                   cell_set_matrix)]
  IN  IF day = NoTime THEN [err |-> "MixedTimepoints", single |-> FALSE, census |-> <<>>]
      ELSE [err |-> "ok", single |-> Len(census) = 1, census |-> census]

(* -------------------------------- Init -------------------------------- *)

Init ==
  /\ day_pairs \in RegistryChoices
  /\ max_threads \in 1..MaxThreads
  /\ ot_config \in UserConfigs
  /\ dir = EmptyMap
  /\ tmaps = scan_transport_map_directory(dir)[1]
  /\ cov_tmaps = scan_transport_map_directory(dir)[2]
  /\ solverCalls = 0
  /\ calls = EmptyMap
  /\ pc = "idle"
  /\ batch = NoBatch
  /\ procs = <<>>
  /\ i = 0
  /\ last = [op |-> "none", args |-> NoArgs, err |-> "ok", ret |-> <<>>,
             loads |-> <<>>, solver0 |-> 0]

\* a sequential model constructed with keyword configuration and overrides
InitConfigured ==
  /\ day_pairs \in ConfiguredRegistries
  /\ max_threads = 1
  /\ ot_config \in ConfiguredUserConfigs
  /\ dir = EmptyMap
  /\ tmaps = scan_transport_map_directory(dir)[1]
  /\ cov_tmaps = scan_transport_map_directory(dir)[2]
  /\ solverCalls = 0
  /\ calls = EmptyMap
  /\ pc = "idle"
  /\ batch = NoBatch
  /\ procs = <<>>
  /\ i = 0
  /\ last = [op |-> "none", args |-> NoArgs, err |-> "ok", ret |-> <<>>,
             loads |-> <<>>, solver0 |-> 0]

(* ------------------------------ actions ------------------------------- *)

\* the days compute_transport_map is called with
ComputeInputs == ForwardPairs

\* the covariate arguments compute_transport_map and transport_map are called with
CovInputs == {None, <<1, 2>>}

\* a direct call of compute_transport_map(t0, t1, covariate)
ComputeTransportMap(t0, t1, covariate, outcome) ==
  LET r == compute_transport_map(tmaps, cov_tmaps, dir, t0, t1, covariate, outcome)
  IN  /\ pc = "idle"
      /\ solverCalls < MaxComputes
      /\ r.solved = <<>> => outcome = "ok"
      /\ tmaps' = r.tmaps
      /\ cov_tmaps' = r.cov_tmaps
      /\ dir' = r.dir
      /\ solverCalls' = solverCalls + Len(r.solved)
      /\ calls' = BagAddAll(EmptyMap, r.solved)
      /\ last' = Call("compute_transport_map",
                      [NoArgs EXCEPT !.t0 = t0, !.t1 = t1, !.covariate = covariate],
                      r.err, <<>>, <<>>)
      /\ batch' = NoBatch /\ procs' = <<>> /\ i' = 0
      /\ UNCHANGED <<config_vars, pc>>

\* compute_all_transport_maps(force, with_covariates) up to its dispatch
ComputeAllStart(force, with_covariates) ==
  LET K == Candidates(force, with_covariates, tmaps, cov_tmaps)
      m == max_threads
      args == [NoArgs EXCEPT !.force = force, !.with_covariates = with_covariates]
  IN  /\ pc = "idle"
      /\ solverCalls + Len(K) <= MaxSolves
      /\ batch' = [NoBatch EXCEPT !.pairs = K, !.tmaps0 = tmaps, !.cov_tmaps0 = cov_tmaps]
      /\ calls' = EmptyMap
      /\ IF K = <<>>
         THEN /\ pc' = "idle" /\ procs' = <<>> /\ i' = 0
              /\ last' = Call("compute_all", args, "ok", <<>>, <<>>)
         ELSE IF m > 1
         THEN /\ pc' = "par" /\ i' = 0
              /\ procs' = [k \in DOMAIN K |->
                             [x |-> K[k], state |-> "new", exitcode |-> 0,
                              joined |-> FALSE, starts |-> 0, joins |-> 0,
                              tmaps |-> EmptyMap,
                              cov_tmaps |-> EmptyMap]]
              /\ last' = Call("compute_all", args, "running", <<>>, <<>>)
         ELSE /\ pc' = "seq" /\ procs' = <<>> /\ i' = 1
              /\ last' = Call("compute_all", args, "running", <<>>, <<>>)
      /\ UNCHANGED <<config_vars, tmaps, cov_tmaps, dir, solverCalls>>

\* one iteration of "for x in day_pairs: self.compute_transport_map(*x)"
SeqStep(outcome) ==
  /\ pc = "seq"
  /\ LET x == batch.pairs[i]
         r == compute_transport_map(tmaps, cov_tmaps, dir, x[1], x[2], CovOf(x), outcome)
     IN  /\ r.solved = <<>> => outcome = "ok"
         /\ tmaps' = r.tmaps
         /\ cov_tmaps' = r.cov_tmaps
         /\ dir' = r.dir
         /\ solverCalls' = solverCalls + Len(r.solved)
         /\ calls' = BagAddAll(calls, r.solved)
         /\ IF r.err # "ok"
            THEN pc' = "idle" /\ i' = i /\ last' = [last EXCEPT !.err = r.err]
            ELSE IF i = Len(batch.pairs)
            THEN pc' = "idle" /\ i' = i /\ last' = [last EXCEPT !.err = "ok"]
            ELSE pc' = "seq" /\ i' = i + 1 /\ last' = last
         /\ batch' = [batch EXCEPT !.failed = @ \/ r.err # "ok"]
  /\ UNCHANGED <<config_vars, procs>>

\* one iteration of the dispatch loop: join procs[i - m], then start procs[i];
\* join() waits until the process has exited, and an exception of join() or
\* start() ends compute_all_transport_maps
DispatchStep ==
  LET m == max_threads
      n == Len(procs)
      j == joined_proc(i, m)
      s == started_proc(i, n)
      je == join_error(procs, j)
      after_join == [k \in DOMAIN procs |->
                       IF k = j + 1 /\ je = "ok"
                       THEN [procs[k] EXCEPT !.joined = TRUE, !.joins = @ + 1]
                       ELSE procs[k]]
      err == IF je # "ok" THEN je ELSE start_error(after_join, s)
  IN  /\ pc = "par"
      /\ i < dispatch_iterations(n, m)
      /\ (j # -1 /\ je = "ok") => procs[j + 1].state = "exited"
      /\ IF err # "ok"
         THEN /\ procs' = after_join
              /\ pc' = "idle" /\ i' = i
              /\ last' = [last EXCEPT !.err = err]
         ELSE /\ procs' = [k \in DOMAIN procs |->
                             IF k = s + 1
                             THEN [after_join[k] EXCEPT !.state = "running",
                                                        !.starts = @ + 1,
                                                        !.tmaps = tmaps,
                                                        !.cov_tmaps = cov_tmaps]
                             ELSE after_join[k]]
              /\ pc' = pc /\ i' = i + 1
              /\ last' = last
      /\ UNCHANGED <<config_vars, tmaps, cov_tmaps, dir, solverCalls, calls, batch>>

\* a started worker process runs compute_transport_map(*x) and exits
WorkerRun(k, outcome) ==
  /\ k \in DOMAIN procs
  /\ procs[k].state = "running"
  /\ LET x == procs[k].x
         r == compute_transport_map(procs[k].tmaps, procs[k].cov_tmaps, dir,
                                    x[1], x[2], CovOf(x), outcome)
     IN  /\ r.solved = <<>> => outcome = "ok"
         /\ procs' = [procs EXCEPT ![k] =
                        [@ EXCEPT !.state = "exited",
                                  !.exitcode = IF r.err = "ok" THEN 0 ELSE 1,
                                  !.tmaps = r.tmaps, !.cov_tmaps = r.cov_tmaps]]
         /\ dir' = r.dir
         /\ tmaps' = parent_cache_after_worker(tmaps, r.tmaps)
         /\ cov_tmaps' = parent_cache_after_worker(cov_tmaps, r.cov_tmaps)
         /\ solverCalls' = solverCalls + Len(r.solved)
         /\ calls' = BagAddAll(calls, r.solved)
         /\ batch' = [batch EXCEPT !.failed = @ \/ r.err # "ok"]
  /\ UNCHANGED <<config_vars, pc, i, last>>

\* after the loop: self.tmaps, self.cov_tmaps = scan_transport_map_directory(self)
Rescan ==
  /\ pc = "par"
  /\ i >= dispatch_iterations(Len(procs), max_threads)
  /\ tmaps' = scan_transport_map_directory(dir)[1]
  /\ cov_tmaps' = scan_transport_map_directory(dir)[2]
  /\ pc' = "idle"
  /\ last' = [last EXCEPT !.err = dispatch_result([k \in DOMAIN procs |-> procs[k].exitcode])]
  /\ batch' = [batch EXCEPT !.rescanned = TRUE]
  /\ UNCHANGED <<config_vars, dir, solverCalls, calls, procs, i>>

\* a call of transport_map(t0, t1, covariate)
TransportMap(t0, t1, covariate) ==
  /\ pc = "idle"
  /\ \E r \in transport_map(tmaps, cov_tmaps, dir, t0, t1, covariate) :
       last' = Call("transport_map",
                    [NoArgs EXCEPT !.t0 = t0, !.t1 = t1, !.covariate = covariate],
                    r.err, r.ret, r.loads)
  /\ calls' = EmptyMap /\ batch' = NoBatch /\ procs' = <<>> /\ i' = 0
  /\ UNCHANGED <<config_vars, tmaps, cov_tmaps, dir, solverCalls, pc>>

\* the population that puts all its mass on the k-th cell of a day
UnitPopulation(day, k) ==
  Population(day, Vec([c \in DOMAIN all_inds(day) |-> IF c = k THEN 1 ELSE 0], 1))

\* the populations of a day that the calls are made with
UnitPopulations(day) == {UnitPopulation(day, k) : k \in DOMAIN all_inds(day)}

\* the argument lists *populations: the lists of distinct populations of one
\* day, in every order, and one list of populations of two days
PopulationInputs ==
  UNION {{ps \in [1..n -> UnitPopulations(d)] :
            \A a \in 1..n, b \in 1..n : a # b => ps[a] # ps[b]} :
           n \in 1..Len(row_day), d \in Days}
    \cup {<<UnitPopulation(timepoints[1], 1), UnitPopulation(timepoints[2], 1)>>}

\* a call of push_forward(*populations, to_time)
PushForward(populations, to_time) ==
  /\ pc = "idle"
  /\ LET r == push_forward(tmaps, cov_tmaps, dir, populations, to_time, TRUE)
     IN  last' = Call("push_forward",
                      [NoArgs EXCEPT !.src = unique_timepoint(populations),
                                     !.to_time = to_time, !.populations = populations],
                      r.err, returned(r, FALSE), r.loads)
  /\ calls' = EmptyMap /\ batch' = NoBatch /\ procs' = <<>> /\ i' = 0
  /\ UNCHANGED <<config_vars, tmaps, cov_tmaps, dir, solverCalls, pc>>

\* a call of pull_back(*populations, to_time)
PullBack(populations, to_time, origin) ==
  /\ pc = "idle"
  /\ LET r == pull_back(tmaps, cov_tmaps, dir, populations, to_time, TRUE)
     IN  last' = Call("pull_back",
                      [NoArgs EXCEPT !.src = unique_timepoint(populations),
                                     !.to_time = to_time, !.populations = populations,
                                     !.origin = origin],
                      r.err, returned(r, FALSE), r.loads)
  /\ calls' = EmptyMap /\ batch' = NoBatch /\ procs' = <<>> /\ i' = 0
  /\ UNCHANGED <<config_vars, tmaps, cov_tmaps, dir, solverCalls, pc>>

\* ot_model.pull_back(*ot_model.push_forward(...), to_time): pull_back on the
\* populations the push_forward before has returned
PullBackResult(to_time) ==
  /\ last.op = "push_forward" /\ last.err = "ok"
  /\ PullBack(last.ret.pops, to_time, last.args.populations)

\* the groups of ids the population builders are called with: two cells of
\* one day, cells of two days, an id that is not in the dataset, and a
\* repeated id
GroupInputs ==
  {<<"b1", "d1">>, <<"b1", "c2">>, <<UnknownId>>, <<"b1", "b1">>}

\* the arguments *ids: one to MaxGroups groups
IdsInputs == UNION {[1..n -> GroupInputs] : n \in 1..MaxGroups}

\* the names of the cell sets, in the order of the dictionary
SetName(k) == "set_" \o ToString(k)

\* the dictionaries cell_sets: up to MaxGroups named groups
CellSetsInputs ==
  {[k \in DOMAIN ids |-> <<SetName(k), ids[k]>>] : ids \in IdsInputs \cup {<<>>}}

\* the arguments at_time: None, or a day of the dataset with several cells
AtTimeInputs == {NoTime, timepoints[2], timepoints[3]}

\* the cell set matrices population_census is called with: rows (cell ids) and
\* a 0/1 membership matrix with one column per cell set
CellSetMatrices ==
  {[ids |-> <<"b1">>, x |-> << <<1, 0>> >>, ncols |-> 2],
   [ids |-> <<"a0">>, x |-> << <<1, 1>> >>, ncols |-> 2],
   [ids |-> <<"d1", "c2", "b1">>, x |-> << <<1, 0, 0>>, <<0, 1, 1>>, <<0, 0, 1>> >>,
    ncols |-> 3]}

\* the populations population_census is called with: the populations of the
\* second day that population_from_ids builds, and one without mass
CensusPopulations ==
  ({get_population(<<g>>, g, timepoints[2]) : g \in GroupInputs} \ {NoPopulation})
    \cup {Population(timepoints[2], Vec([k \in DOMAIN all_inds(timepoints[2]) |-> 0], 1))}

\* the arguments *populations of population_census
CensusInputs ==
  UNION {[1..n -> CensusPopulations] : n \in 1..MaxGroups}
    \cup {<<UnitPopulation(timepoints[1], 1), UnitPopulation(timepoints[2], 1)>>}

\* a call of population_from_ids(*ids, at_time)
PopulationFromIds(ids, at_time) ==
  /\ pc = "idle"
  /\ LET r == population_from_ids(ids, at_time)
     IN  last' = Call("population_from_ids",
                      [NoArgs EXCEPT !.ids = ids, !.at_time = at_time],
                      r.err, [single |-> r.single, result |-> r.result], <<>>)
  /\ calls' = EmptyMap /\ batch' = NoBatch /\ procs' = <<>> /\ i' = 0
  /\ UNCHANGED <<config_vars, tmaps, cov_tmaps, dir, solverCalls, pc>>

\* a call of population_from_cell_sets(cell_sets, at_time)
PopulationFromCellSets(cell_sets, at_time) ==
  /\ pc = "idle"
  /\ LET r == population_from_cell_sets(cell_sets, at_time)
     IN  last' = Call("population_from_cell_sets",
                      [NoArgs EXCEPT !.cell_sets = cell_sets, !.at_time = at_time],
                      r.err, r.ret, <<>>)
  /\ calls' = EmptyMap /\ batch' = NoBatch /\ procs' = <<>> /\ i' = 0
  /\ UNCHANGED <<config_vars, tmaps, cov_tmaps, dir, solverCalls, pc>>

\* a call of population_census(cell_set_matrix, *populations)
PopulationCensus(cell_set_matrix, populations) ==
  /\ pc = "idle"
  /\ LET r == population_census(cell_set_matrix, populations)
     IN  last' = Call("population_census",
                      [NoArgs EXCEPT !.cell_set_matrix = cell_set_matrix,
                                     !.populations = populations],
                      r.err, [single |-> r.single, census |-> r.census], <<>>)
  /\ calls' = EmptyMap /\ batch' = NoBatch /\ procs' = <<>> /\ i' = 0
  /\ UNCHANGED <<config_vars, tmaps, cov_tmaps, dir, solverCalls, pc>>

(* --------------------------- specifications --------------------------- *)

\* compute_all_transport_maps: candidate selection, dispatch, workers, rescan
Next ==
  \/ \E f \in BOOLEAN, w \in BOOLEAN : ComputeAllStart(f, w)
  \/ \E o \in Outcomes : SeqStep(o)
  \/ DispatchStep
  \/ \E k \in DOMAIN procs, o \in Outcomes : WorkerRun(k, o)
  \/ Rescan

Spec == Init /\ [][Next]_vars

\* the parallel dispatch: a worker returns normally or raises
NextDispatch ==
  \/ \E f \in BOOLEAN, w \in BOOLEAN : ComputeAllStart(f, w)
  \/ DispatchStep
  \/ \E k \in DOMAIN procs, o \in {"ok", "solver_failed"} : WorkerRun(k, o)
  \/ Rescan

InitParallel == Init /\ max_threads > 1

\* compute_all_transport_maps with a parent process that keeps executing its
\* loop whenever it is not waiting in join(); nothing is assumed of the workers
SpecDispatch ==
  /\ InitParallel /\ [][NextDispatch]_vars
  /\ WF_vars(DispatchStep)
  /\ WF_vars(Rescan)

\* compute_transport_map and transport_map on a sequential model
NextResolve ==
  \/ \E p \in ComputeInputs, c \in CovInputs, o \in Outcomes :
       ComputeTransportMap(p[1], p[2], c, o)
  \/ \E t0 \in Times, t1 \in Times, c \in CovInputs : TransportMap(t0, t1, c)

InitSequential == Init /\ max_threads = 1

SpecResolve == InitSequential /\ [][NextResolve]_vars

\* compute_transport_map, push_forward and pull_back on a sequential model
NextPropagate ==
  \/ \E p \in ComputeInputs, o \in Outcomes : ComputeTransportMap(p[1], p[2], None, o)
  \/ \E src \in Days, to \in Times \cup {NoTime} :
       PushForward(<<UnitPopulation(src, 1)>>, to)
  \/ \E src \in Days, to \in Times \cup {NoTime} :
       PullBack(<<UnitPopulation(src, 1)>>, to, <<>>)

SpecPropagate == InitSequential /\ [][NextPropagate]_vars

\* compute_transport_map on a model constructed with configuration
NextConfigured ==
  \E p \in ComputeInputs, c \in CovInputs : ComputeTransportMap(p[1], p[2], c, "ok")

SpecConfigured == InitConfigured /\ [][NextConfigured]_vars

\* the population builders and the census, which use the dataset only
NextPopulation ==
  \/ \E ids \in IdsInputs, t \in AtTimeInputs : PopulationFromIds(ids, t)
  \/ \E cs \in CellSetsInputs, t \in AtTimeInputs : PopulationFromCellSets(cs, t)
  \/ \E m \in CellSetMatrices, ps \in CensusInputs : PopulationCensus(m, ps)

InitPlain == InitSequential /\ ~day_pairs.active

SpecPopulation == InitPlain /\ [][NextPopulation]_vars

\* the pairs of days push_forward and pull_back request maps for
ConsecutivePairs == {<<timepoints[k], timepoints[k + 1]>> : k \in 1..(Len(timepoints) - 1)}

\* push_forward and pull_back of one or several populations over the maps
\* that compute_transport_map has stored
NextMove ==
  \/ \E p \in ConsecutivePairs : ComputeTransportMap(p[1], p[2], None, "ok")
  \/ \E ps \in PopulationInputs, to \in Days \cup {NoTime} : PushForward(ps, to)
  \/ \E ps \in PopulationInputs, to \in Days \cup {NoTime} : PullBack(ps, to, <<>>)
  \/ \E to \in Days \cup {NoTime} : PullBackResult(to)

SpecMove == InitSequential /\ [][NextMove]_vars

\* compute_all_transport_maps on a sequential model, followed by push_forward
\* and pull_back of one population
NextServe ==
  \/ \E f \in BOOLEAN, w \in BOOLEAN : ComputeAllStart(f, w)
  \/ \E o \in Outcomes : SeqStep(o)
  \/ \E src \in Days, to \in Days \cup {NoTime} :
       PushForward(<<UnitPopulation(src, 1)>>, to)
  \/ \E src \in Days, to \in Days \cup {NoTime} :
       PullBack(<<UnitPopulation(src, 1)>>, to, <<>>)

SpecServe == InitSequential /\ [][NextServe]_vars

(* ------------------- properties of the parallel dispatch -------------- *)

\* the worker processes that have been started and have not completed
Active == {k \in DOMAIN procs : procs[k].state = "running"}

\* C1: during compute_all_transport_maps with worker bound m > 1, in every
\* state of the dispatch and for every interleaving of worker completions, at
\* most m worker processes are started and not yet completed.
C1_ConcurrencyBound == max_threads > 1 => Cardinality(Active) <= max_threads

\* C1 witness: more candidates than the bound, and the window is full
C1_Witness ==
  /\ max_threads > 1
  /\ Len(procs) > max_threads
  /\ Cardinality(Active) = max_threads

\* C2: workers are started in candidate-list order, and worker i >= m is
\* started only after worker i-m has completed, whichever other worker
\* finished before.
C2_FifoWindow ==
  \A k \in DOMAIN procs :
    procs[k].state # "new" =>
      /\ \A j \in 1..(k - 1) : procs[j].state # "new"
      /\ k > max_threads => procs[k - max_threads].state = "exited"

\* C2 witness: a worker has finished early, the worker m positions behind the
\* next one is still running, and the next one has not been started
C2_Witness ==
  \E k \in DOMAIN procs :
    /\ k > max_threads
    /\ procs[k].state = "new"
    /\ procs[k - max_threads].state = "running"
    /\ \E j \in (k - max_threads + 1)..(k - 1) : procs[j].state = "exited"

\* C3: in a parallel batch no worker changes the parent's in-memory cache
\* before the rescan, the rescan happens only after every dispatched worker has
\* completed, and after the batch the cache is the result of the scan.
C3_RescanAfterWorkers ==
  /\ pc = "par" => tmaps = batch.tmaps0 /\ cov_tmaps = batch.cov_tmaps0
  /\ batch.rescanned =>
       /\ \A k \in DOMAIN procs : procs[k].state = "exited"
       /\ tmaps = scan_transport_map_directory(dir)[1]
       /\ cov_tmaps = scan_transport_map_directory(dir)[2]

\* C3 witness: workers have written maps, and the parent's cache still is the
\* one of the start of the batch
C3_Witness ==
  /\ pc = "par"
  /\ \E k \in DOMAIN procs :
       procs[k].state = "exited" /\ procs[k].exitcode = 0 /\ procs[k].tmaps # tmaps
  /\ tmaps # scan_transport_map_directory(dir)[1]

\* C4 (as claimed): compute_all_transport_maps never returns normally when the
\* computation of one of its candidates failed, for every worker bound.
C4_FailureRaised ==
  (pc = "idle" /\ last.op = "compute_all" /\ batch.failed) => last.err # "ok"

\* the key of a configuration handed to the solver
KeyOfConfig(c) ==
  IF c["covariate"] = None THEN <<c["t0"], c["t1"]>>
  ELSE <<c["t0"], c["t1"], c["covariate"]>>

\* the keys the solver was invoked for by the current call
SolvedKeys == {KeyOfConfig(c) : c \in DOMAIN calls}

\* the number of solver invocations of the current call for key x
SolveCount(x) ==
  LET cs == {c \in DOMAIN calls : KeyOfConfig(c) = x}
  IN  IF cs = {} THEN 0
      ELSE IF Cardinality(cs) = 1 THEN calls[CHOOSE c \in cs : TRUE] ELSE 2

\* the candidate set and the set K the claim names
ClaimCandidates(with_covariates) ==
  LET base == IF day_pairs.active THEN DOMAIN day_pairs.map
              ELSE {<<timepoints[k], timepoints[k + 1]>> : k \in 1..(Len(timepoints) - 1)}
  IN  IF with_covariates
      THEN {<<p[1], p[2], <<a, b>>>> : p \in base, a \in Covariates, b \in Covariates}
      ELSE base

ClaimK ==
  LET all == ClaimCandidates(last.args.with_covariates)
  IN  IF last.args.force THEN all
      ELSE {x \in all :
              IF last.args.with_covariates
              THEN <<x[1], x[2], x[3][1], x[3][2]>> \notin DOMAIN batch.cov_tmaps0
              ELSE x \notin DOMAIN batch.tmaps0}

Adjacent(t0, t1) ==
  \E k \in 1..(Len(timepoints) - 1) : timepoints[k] = t0 /\ timepoints[k + 1] = t1

\* compute_transport_map(t0, t1) has succeeded: the directory starts empty and
\* only a compute_transport_map call that returns normally writes the file
HasSucceeded(t0, t1) == (tmap_prefix \o PlainName(t0, t1)) \in DOMAIN dir

\* C6: for every adjacent pair (t0,t1), once compute_transport_map(t0,t1) has
\* succeeded, transport_map(t0,t1) returns the matrix cached for (t0,t1) and
\* leaves the number of solver invocations as it was.
C6_ResolveAfterCompute ==
  (/\ last.op = "transport_map"
   /\ last.args.covariate = None
   /\ Adjacent(last.args.t0, last.args.t1)
   /\ HasSucceeded(last.args.t0, last.args.t1))
  => /\ last.err = "ok"
     /\ last.ret = <<[t0 |-> last.args.t0, t1 |-> last.args.t1, covariate |-> None]>>
     /\ solverCalls = last.solver0

\* C6 witness: transport_map has returned the map of an adjacent pair that
\* compute_transport_map computed before
C6_Witness ==
  /\ last.op = "transport_map" /\ last.err = "ok"
  /\ last.args.covariate = None
  /\ Adjacent(last.args.t0, last.args.t1)
  /\ HasSucceeded(last.args.t0, last.args.t1)
  /\ solverCalls > 0

\* C7: with a registry configured and (t0,t1) not in it, a call of
\* compute_transport_map(t0,t1,covariate) fails with IllegalPair, the solver
\* is not invoked, and the cache and the directory stay as they were.
C7_IllegalPair ==
  [][(/\ last'.op = "compute_transport_map"
      /\ day_pairs.active
      /\ <<last'.args.t0, last'.args.t1>> \notin DOMAIN day_pairs.map)
     => /\ last'.err = "IllegalPair"
        /\ calls' = EmptyMap
        /\ UNCHANGED <<tmaps, cov_tmaps, dir, solverCalls>>]_vars

\* C7 witness: a pair outside the registry has been rejected on a cache that
\* holds a map
C7_Witness ==
  /\ last.op = "compute_transport_map" /\ last.err = "IllegalPair"
  /\ day_pairs.active
  /\ <<last.args.t0, last.args.t1>> \notin DOMAIN day_pairs.map
  /\ last.args.covariate # None
  /\ tmaps # EmptyMap

\* C8 (as claimed): with a registry configured, every pair that transport_map
\* loads directly as one cached map is a pair of the registry, that is a pair
\* compute_transport_map accepts.
C8_RegistryExhaustive ==
  (/\ last.op = "transport_map"
   /\ day_pairs.active
   /\ last.loads = << <<last.args.t0, last.args.t1, last.args.covariate>> >>)
  => ~PairRejected(last.args.t0, last.args.t1)

\* C9: transport_map fails with UnknownTimepoint when t0 or t1 is not in
\* TimepointIndex, whatever the covariate, and with IllegalCovariateRequest
\* when both are, a covariate is given and the pair is not atomic; in both
\* cases no map is loaded or composed.
C9_CovariateOnlyAtomic ==
  last.op = "transport_map" =>
    LET t0 == last.args.t0
        t1 == last.args.t1
        unknown == t0 \notin Days \/ t1 \notin Days
        isAtomic == \/ day_pairs.active /\ <<t0, t1>> \in DOMAIN day_pairs.map
                    \/ Adjacent(t0, t1)
    IN  /\ unknown =>
             last.err = "UnknownTimepoint" /\ last.loads = <<>> /\ last.ret = <<>>
        /\ (~unknown /\ last.args.covariate # None /\ ~isAtomic) =>
             last.err = "IllegalCovariateRequest" /\ last.loads = <<>> /\ last.ret = <<>>

\* C9 witness: without registry, transport_map(0, 2, covariate=(1,2)) has failed
C9_Witness ==
  /\ last.op = "transport_map"
  /\ ~day_pairs.active
  /\ last.args.t0 = 0 /\ last.args.t1 = 2 /\ last.args.covariate = <<1, 2>>
  /\ last.err = "IllegalCovariateRequest"
  /\ dir # EmptyMap

(* ---------------- properties of push_forward / pull_back -------------- *)

\* C10 (as claimed): push_forward / pull_back fail before resolving any map
\* exactly when (a) no to_time is given and the source is the last (forward) or
\* first (backward) timepoint, (b) to_time lies strictly on the wrong side of
\* the source, or (c) to_time is not in TimepointIndex; and the errors of (a)
\* are raised only when no to_time is given.
C10_ArgumentErrors ==
  last.op \in {"push_forward", "pull_back"} =>
    LET fwd == last.op = "push_forward"
        src == last.args.src
        to == last.args.to_time
        caseA == to = NoTime /\ src = (IF fwd THEN timepoints[Len(timepoints)]
                                              ELSE timepoints[1])
        caseB == to \in Days /\ (IF fwd THEN to < src ELSE to > src)
        caseC == to # NoTime /\ to \notin Days
        failsBefore == last.err # "ok" /\ last.loads = <<>>
    IN  /\ failsBefore <=> (caseA \/ caseB \/ caseC)
        /\ last.err \in {"NoFurtherTimepoint", "NoPreviousTimepoint"} => to = NoTime

\* the day at 0-based position a of TimepointIndex
DayAt(a) == timepoints[a + 1]

\* the destination of the last push_forward / pull_back call: to_time if given,
\* else the next / previous timepoint
Destination ==
  IF last.args.to_time # NoTime THEN last.args.to_time
  ELSE IF last.op = "push_forward" THEN DayAt(index(last.args.src) + 1)
  ELSE DayAt(index(last.args.src) - 1)

\* the adjacent pairs between the source and the destination, in order from
\* the source toward the destination, each as (earlier, later)
ExpectedRequests ==
  LET a == index(last.args.src)
      b == index(Destination)
  IN  IF last.op = "push_forward"
      THEN [k \in 1..(b - a) |-> <<DayAt(a + k - 1), DayAt(a + k), None>>]
      ELSE [k \in 1..(a - b) |-> <<DayAt(a - k), DayAt(a - k + 1), None>>]

\* what the last call returns for its k-th population alone
AloneResult(k) ==
  LET one == <<last.args.populations[k]>>
      r == IF last.op = "push_forward"
           THEN push_forward(tmaps, cov_tmaps, dir, one, last.args.to_time, TRUE)
           ELSE pull_back(tmaps, cov_tmaps, dir, one, last.args.to_time, TRUE)
  IN  Population(r.time, r.p[1])

\* C11: a successful push_forward / pull_back from index i to index j resolves
\* exactly |i-j| transport maps, one per adjacent pair between i and j, in
\* order from i toward j and each requested as (earlier, later), and returns
\* one Population per input, in input order, each at the destination timepoint.
C11_StepsAndResults ==
  (last.op \in {"push_forward", "pull_back"} /\ last.err = "ok") =>
    /\ last.loads = ExpectedRequests
    /\ Len(last.ret.pops) = Len(last.args.populations)
    /\ \A k \in DOMAIN last.ret.pops :
         /\ last.ret.pops[k].time = Destination
         /\ last.ret.pops[k] = AloneResult(k)

\* C11 witness: two different populations of the last day have been pulled
\* back over two maps
C11_Witness ==
  /\ last.op = "pull_back" /\ last.err = "ok"
  /\ Len(last.loads) = 2
  /\ Len(last.ret.pops) = 2
  /\ last.args.populations[1] # last.args.populations[2]

\* C12: pushing a population of a timepoint that is not the last one forward
\* one step and pulling the result back one step yields a population at the
\* original timepoint whose weight vector has the original length, the number
\* of cells of that timepoint.
C12_RoundTrip ==
  (/\ last.op = "pull_back"
   /\ last.args.origin # <<>>
   /\ index(last.args.src) = index(last.args.origin[1].time) + 1
   /\ last.args.to_time \in {NoTime, last.args.origin[1].time})
  => /\ last.err = "ok"
     /\ Len(last.ret.pops) = Len(last.args.origin)
     /\ \A k \in DOMAIN last.ret.pops :
          /\ last.ret.pops[k].time = last.args.origin[k].time
          /\ Len(last.ret.pops[k].p.num) = Len(last.args.origin[k].p.num)
          /\ Len(last.ret.pops[k].p.num) = Len(all_inds(last.args.origin[k].time))

\* C12 witness: a population of the first day, which has fewer cells than the
\* second, has been pushed one step and pulled back
C12_Witness ==
  /\ last.op = "pull_back" /\ last.err = "ok"
  /\ last.args.origin # <<>>
  /\ last.args.origin[1].time = timepoints[1]
  /\ last.args.src = timepoints[2]
  /\ last.args.to_time = NoTime
  /\ Len(last.args.populations[1].p.num) # Len(last.ret.pops[1].p.num)

(* ------------------- properties of the configuration ------------------ *)

\* the keys compute_transport_map adds to every configuration
CallKeys == {"t0", "t1", "covariate"}

\* the override of the registry for the pair of the last compute_transport_map call
OverrideOfCall ==
  IF day_pairs.active /\ <<last.args.t0, last.args.t1>> \in DOMAIN day_pairs.map
  THEN day_pairs.map[<<last.args.t0, last.args.t1>>]
  ELSE EmptyMap

\* C13 (as claimed): no key outside the defaults table, other than t0, t1 and
\* covariate, is passed to the solver by compute_transport_map, whether it was
\* supplied in the global configuration or in a per-pair override, and every
\* key of the defaults table is passed, with its default value when neither
\* supplied it.
C13_OnlyDocumentedKeys ==
  last.op = "compute_transport_map" =>
    \A c \in DOMAIN calls :
      /\ DOMAIN c = (DOMAIN ot_defaults) \cup CallKeys
      /\ \A x \in DOMAIN ot_defaults :
           (x \notin DOMAIN ot_config /\ x \notin DOMAIN OverrideOfCall)
             => c[x] = ot_defaults[x]

\* C14: the configuration handed to the solver takes every key from the
\* highest of the levels that set it: the call's t0, t1 and covariate, then
\* the registry's override for the pair, then the global configuration, then
\* the defaults table; and every key of the call, of the override and of the
\* defaults table is handed over.
C14_Precedence ==
  last.op = "compute_transport_map" =>
    \A c \in DOMAIN calls :
      /\ (DOMAIN ot_defaults) \cup (DOMAIN OverrideOfCall) \cup CallKeys \subseteq DOMAIN c
      /\ c["t0"] = last.args.t0 /\ c["t1"] = last.args.t1
      /\ c["covariate"] = last.args.covariate
      /\ \A x \in (DOMAIN c) \ CallKeys :
           c[x] = IF x \in DOMAIN OverrideOfCall THEN OverrideOfCall[x]
                  ELSE IF x \in DOMAIN ot_config THEN ot_config[x]
                  ELSE ot_defaults[x]

\* C14 witness: the solver was called for a pair whose override sets epsilon
\* and t0, on a model whose global configuration sets epsilon too
C14_Witness ==
  /\ last.op = "compute_transport_map" /\ last.err = "ok"
  /\ "epsilon" \in DOMAIN ot_config
  /\ "epsilon" \in DOMAIN OverrideOfCall /\ "t0" \in DOMAIN OverrideOfCall
  /\ ot_config["epsilon"] # OverrideOfCall["epsilon"]
  /\ OverrideOfCall["t0"] # last.args.t0
  /\ last.args.covariate # None
  /\ calls # EmptyMap

(* ------------------- progress of the parallel dispatch ---------------- *)

\* worker k has been started and has not completed
Running(k) == k \in DOMAIN procs /\ procs[k].state = "running"

\* the batch is held up behind worker k: no worker m or more positions behind
\* k has been started, the directory has not been rescanned and
\* compute_all_transport_maps has not returned
HeldUpBehind(k) ==
  /\ pc = "par" /\ last.err = "running" /\ ~batch.rescanned
  /\ \A j \in DOMAIN procs : j >= k + max_threads => procs[j].state = "new"

\* every candidate has been started and has completed, the directory has been
\* rescanned and compute_all_transport_maps has returned
BatchReturned ==
  /\ pc = "idle" /\ last.err # "running" /\ batch.rescanned
  /\ \A j \in DOMAIN procs : procs[j].state = "exited"

\* C15: if a worker of a parallel batch never completes, no worker m or more
\* positions behind it is ever started, the rescan never happens and
\* compute_all_transport_maps never returns; and if every started worker
\* eventually completes, every candidate is eventually started and
\* compute_all_transport_maps eventually returns.
C15_StallBlocksBatch ==
  /\ \A k \in 1..MaxSolves : []([]Running(k) => []HeldUpBehind(k))
  /\ (\A k \in 1..MaxSolves : []<>~Running(k)) => [](pc = "par" => <>BatchReturned)

\* C15 witness: the parent waits in join() for a running worker while a later
\* worker of its window has exited and a candidate has not been started
C15_Witness ==
  /\ pc = "par"
  /\ i >= max_threads /\ i < Len(procs)
  /\ procs[i - max_threads + 1].state = "running"
  /\ procs[i + 1].state = "new"
  /\ \E j \in DOMAIN procs : j > i - max_threads + 1 /\ procs[j].state = "exited"

(* ----------------------- files written by a batch --------------------- *)

\* the file compute_transport_map(*x) writes for the candidate x
FileOf(x) ==
  IF Len(x) = 3 THEN tmap_prefix \o CovName(x[1], x[2], x[3])
  ELSE tmap_prefix \o PlainName(x[1], x[2])

\* C16: within one compute_all_transport_maps batch no two scheduled
\* computations have the same key (t0,t1[,covariate]) and no two of them write
\* the same file name, so no two concurrently active workers write the same file.
C16_DistinctFiles ==
  /\ \A a \in DOMAIN batch.pairs, b \in DOMAIN batch.pairs :
       a # b => /\ batch.pairs[a] # batch.pairs[b]
                /\ FileOf(batch.pairs[a]) # FileOf(batch.pairs[b])
  /\ \A a \in Active, b \in Active : a # b => FileOf(procs[a].x) # FileOf(procs[b].x)
  /\ \A k \in DOMAIN procs :
       (procs[k].state = "exited" /\ procs[k].exitcode = 0) => FileOf(procs[k].x) \in DOMAIN dir

\* C16 witness: two workers are active at once for the same pair of days with
\* different covariate pairs
C16_Witness ==
  \E a \in Active, b \in Active :
    /\ a # b
    /\ Len(procs[a].x) = 3 /\ Len(procs[b].x) = 3
    /\ procs[a].x[1] = procs[b].x[1] /\ procs[a].x[2] = procs[b].x[2]
    /\ procs[a].x[3][1] = procs[b].x[3][1]

(* ------------- properties of the population builders and census ------- *)

\* the day of the cell with a given id
DayOfId(id) == row_day[IndexOf(row_ids, id)]

\* the ids of a group that are cells of the dataset alive at a day
AliveIds(group, day) ==
  {id \in Range(group) : id \in Range(row_ids) /\ DayOfId(id) = day}

\* the population the claim describes for a group: None without alive id, else
\* weight 1/k on each of the k alive ids and 0 on the other cells of the day
UniformOver(group, day) ==
  IF AliveIds(group, day) = {} THEN NoPopulation
  ELSE Population(day,
         [num |-> [k \in DOMAIN all_inds(day) |->
                     IF row_ids[all_inds(day)[k]] \in AliveIds(group, day) THEN 1 ELSE 0],
          den |-> Cardinality(AliveIds(group, day))])

\* the timepoint population_from_ids resolves: at_time, else the day of the
\* first id of the first group
ResolvedDay(ids, at_time) == IF at_time # NoTime THEN at_time ELSE DayOfId(ids[1][1])

\* C17: population_from_ids builds each group's result independently of the
\* other groups: the result at a group's position is None if no id of the
\* group is alive at the resolved timepoint, and otherwise gives weight 1/k to
\* each of the k alive ids of the group and 0 to every other cell; an id shared
\* by two groups has its full uniform weight in both.
C17_GroupsIndependent ==
  (last.op = "population_from_ids" /\ last.err = "ok") =>
    /\ Len(last.ret.result) = Len(last.args.ids)
    /\ \A k \in DOMAIN last.args.ids :
         last.ret.result[k] =
           UniformOver(last.args.ids[k], ResolvedDay(last.args.ids, last.args.at_time))

\* C17 witness: two groups share an id; it has weight 1/2 in the first group,
\* whose other id is alive too, and weight 1 in the second
C17_Witness ==
  /\ last.op = "population_from_ids" /\ last.err = "ok"
  /\ Len(last.args.ids) = 2
  /\ \E id \in Range(last.args.ids[1]) \cap Range(last.args.ids[2]) :
       id \in AliveIds(last.args.ids[1], last.args.at_time)
  /\ last.ret.result[1].p.den = 2
  /\ last.ret.result[2].p.den = 1
  /\ last.ret.result[2] # NoPopulation

\* C18 (as claimed): for a dictionary of any number n >= 1 of named cell sets
\* and a given at_time, population_from_cell_sets returns the dictionary that
\* maps exactly the names whose population is not empty to the population
\* population_from_ids builds for that set.
C18_CellSetsOfAnySize ==
  (/\ last.op = "population_from_cell_sets"
   /\ Len(last.args.cell_sets) >= 1
   /\ last.args.at_time # NoTime)
  => LET cs == last.args.cell_sets
         Built(k) == population_from_ids(<<cs[k][2]>>, last.args.at_time).result[1]
         named == {k \in DOMAIN cs : Built(k) # NoPopulation}
     IN  /\ last.err = "ok"
         /\ DOMAIN last.ret = {cs[k][1] : k \in named}
         /\ \A k \in named : last.ret[cs[k][1]] = Built(k)

\* the cell set matrix of the last census has no row for a cell of the
\* populations' day
EmptyIntersection ==
  Range(last.args.cell_set_matrix.ids)
    \cap Range(all_ids_at_t(unique_timepoint(last.args.populations))) = {}

\* C19: population_census with a cell set matrix whose row ids have an empty
\* intersection with the cells alive at the populations' timepoint returns, for
\* every input population, the all-zero vector whose length is the number of
\* cell sets.
C19_EmptyIntersectionZero ==
  (/\ last.op = "population_census"
   /\ unique_timepoint(last.args.populations) # NoTime
   /\ EmptyIntersection)
  => /\ last.err = "ok"
     /\ Len(last.ret.census) = Len(last.args.populations)
     /\ \A k \in DOMAIN last.ret.census :
          /\ last.ret.census[k].den # 0
          /\ Len(last.ret.census[k].num) = last.args.cell_set_matrix.ncols
          /\ \A c \in DOMAIN last.ret.census[k].num : last.ret.census[k].num[c] = 0

\* C19 witness: the census of two populations of the second day against a
\* matrix that only has a cell of the first day
C19_Witness ==
  /\ last.op = "population_census" /\ last.err = "ok"
  /\ EmptyIntersection
  /\ Len(last.args.populations) = 2
  /\ last.args.cell_set_matrix.ids # <<>>
  /\ Len(last.args.cell_set_matrix.x) # last.args.cell_set_matrix.ncols
  /\ Sum(last.args.populations[1].p.num) > 0

\* C20 (as claimed): when the intersection is not empty and a population has
\* mass on it, the weights used on the intersected cells sum to 1, so a cell
\* set that holds every intersected cell has census entry 1, also when part of
\* the population's mass lies outside the intersection.
C20_RenormalizedOverIntersection ==
  (/\ last.op = "population_census" /\ last.err = "ok"
   /\ ~EmptyIntersection)
  => LET m == last.args.cell_set_matrix
         day == unique_timepoint(last.args.populations)
         inter == {r \in DOMAIN m.ids : m.ids[r] \in Range(all_ids_at_t(day))}
         Mass(q) == Sum([k \in DOMAIN all_ids_at_t(day) |->
                           IF all_ids_at_t(day)[k] \in Range(m.ids) THEN q.p.num[k] ELSE 0])
     IN  \A k \in DOMAIN last.args.populations, c \in 1..m.ncols :
           (Mass(last.args.populations[k]) > 0 /\ \A r \in inter : m.x[r][c] = 1)
             => /\ last.ret.census[k].den # 0
                /\ last.ret.census[k].num[c] = last.ret.census[k].den

(* ------------------- properties of the in-memory cache ---------------- *)

\* the cache g is the cache f except, at most, for the entry of key
SameExceptAt(f, g, key) ==
  /\ DOMAIN g = (DOMAIN f) \cup {key}
  /\ \A k \in (DOMAIN f) \ {key} : g[k] = f[k]

\* C21: a successful compute_transport_map(t0,t1,covariate) changes exactly
\* one in-memory cache entry and rescans nothing: without covariate only
\* tmaps[(t0,t1)] changes and cov_tmaps is unchanged, with covariate (c0,c1)
\* only cov_tmaps[(t0,t1,c0,c1)] changes and tmaps is unchanged; every other
\* key keeps its previous value.
C21_OneCacheEntry ==
  [][(last'.op = "compute_transport_map" /\ last'.err = "ok")
     => IF last'.args.covariate = None
        THEN /\ SameExceptAt(tmaps, tmaps', <<last'.args.t0, last'.args.t1>>)
             /\ <<last'.args.t0, last'.args.t1>> \in DOMAIN tmaps'
             /\ cov_tmaps' = cov_tmaps
        ELSE /\ SameExceptAt(cov_tmaps, cov_tmaps',
                             <<last'.args.t0, last'.args.t1,
                               last'.args.covariate[1], last'.args.covariate[2]>>)
             /\ <<last'.args.t0, last'.args.t1,
                  last'.args.covariate[1], last'.args.covariate[2]>> \in DOMAIN cov_tmaps'
             /\ tmaps' = tmaps]_vars

\* C21 witness: a covariate-restricted map has been computed on a cache that
\* holds an entry a scan of the directory would not find, and the entry is
\* still there
C21_Witness ==
  /\ last.op = "compute_transport_map" /\ last.err = "ok"
  /\ last.args.covariate # None
  /\ cov_tmaps # EmptyMap
  /\ \E k \in DOMAIN tmaps : tmaps[k] \notin DOMAIN dir
  /\ tmaps # scan_transport_map_directory(dir)[1]

\* C22 (as claimed): after any sequence of compute_transport_map calls,
\* failed ones included, every key of the in-memory cache has its matrix file
\* in the cache directory.
C22_CachedMeansPersisted ==
  pc = "idle" =>
    /\ \A k \in DOMAIN tmaps : tmaps[k] \in DOMAIN dir
    /\ \A k \in DOMAIN cov_tmaps : cov_tmaps[k] \in DOMAIN dir

(* ------------------- properties of the computed maps ------------------ *)

\* compute_all_transport_maps has returned without an exception, and the
\* cache was empty when it was called
ComputedAllFromEmpty ==
  /\ pc = "idle"
  /\ last.op = "compute_all" /\ last.err = "ok"
  /\ batch.tmaps0 = EmptyMap /\ batch.cov_tmaps0 = EmptyMap

\* the calls of push_forward and pull_back that stay within the timepoints:
\* forwards from a day that is not the last, backwards from a day that is not
\* the first, to a day on that side or to the default (one step)
InBounds(call) ==
  /\ call.args.src \in Days
  /\ call.args.to_time \in Days \cup {NoTime}
  /\ IF call.op = "push_forward"
     THEN /\ call.args.src # timepoints[Len(timepoints)]
          /\ call.args.to_time # NoTime => call.args.to_time >= call.args.src
     ELSE /\ call.args.src # timepoints[1]
          /\ call.args.to_time # NoTime => call.args.to_time <= call.args.src

\* C23 (as claimed): a push_forward or pull_back within the timepoints that
\* is called right after compute_all_transport_maps has returned successfully
\* on an empty cache never fails with MapNotComputed, with or without a
\* registry of day pairs.
C23_ComputedAllServes ==
  [][(/\ ComputedAllFromEmpty
      /\ last'.op \in {"push_forward", "pull_back"}
      /\ InBounds(last'))
     => last'.err # "MapNotComputed"]_vars

(* ------------------- properties of the dispatch loop ------------------ *)

\* the indexes the loop uses in iteration it are indexes of the list procs
\* (-1: the iteration does not use the index)
IndexesExist(it) ==
  /\ joined_proc(it, max_threads) \in -1..(Len(procs) - 1)
  /\ started_proc(it, Len(procs)) \in -1..(Len(procs) - 1)

\* C24: in the parallel dispatch, whatever the numbers n of candidates and m
\* of max_threads (n < m and n = m included), no process is started or joined
\* twice, none is joined before it is started, no start(), join() or index
\* raises, every iteration indexes existing processes, and when the loop is
\* over every process has been started once and joined once.
C24_StartedOnceJoinedOnce ==
  /\ \A k \in DOMAIN procs :
       /\ procs[k].starts <= 1
       /\ procs[k].joins <= procs[k].starts
       /\ (pc = "par" /\ k <= i) => procs[k].starts = 1
       /\ (pc = "par" /\ k + max_threads <= i) => procs[k].joins = 1
  /\ last.op = "compute_all" => last.err \notin {"IndexError", "AssertionError"}
  /\ pc = "par" => \A it \in 0..(dispatch_iterations(Len(procs), max_threads) - 1) :
                     IndexesExist(it)
  /\ batch.rescanned =>
       \A k \in DOMAIN procs : procs[k].starts = 1 /\ procs[k].joins = 1

\* a dispatch with fewer candidates than max_threads has run to its end
C24_Witness ==
  /\ batch.rescanned
  /\ Len(procs) >= 1
  /\ Len(procs) < max_threads
  /\ \A k \in DOMAIN procs : procs[k].starts = 1 /\ procs[k].joins = 1

(* ------------------- properties of the zero-step request -------------- *)

\* C25 (as claimed): push_forward and pull_back with to_time equal to the
\* timepoint of the populations, at every timepoint, the first and the last
\* included, return without an error, load no transport map and return the
\* populations they were given, at that timepoint.
C25_ZeroStepsEverywhere ==
  (/\ last.op \in {"push_forward", "pull_back"}
   /\ last.args.src \in Days
   /\ last.args.to_time = last.args.src)
  => /\ last.err = "ok"
     /\ last.loads = <<>>
     /\ last.ret.pops = last.args.populations

====
